---- MODULE Spec2Model ----
(***************************************************************************)
(* RPG inventory: equipment slots + ordered storage, as implemented by the *)
(* React prototypes of the repository.                                     *)
(*                                                                         *)
(*   "part_000" : src/unnamed/part_000 (four-case handleDragEnd)           *)
(*   "App"      : src/rpg-inventory-local/src/App.tsx (three-case          *)
(*                handleDragEnd, no drop-onto-stored-item insertion)       *)
(*                                                                         *)
(* One event handler runs to completion between two renders, so every      *)
(* handler is one action: the closure values (storageOrder, slots) it      *)
(* reads are those of the last render, and the functional updaters it      *)
(* enqueues are applied, per state hook, in the order they were enqueued.  *)
(* React then renders the component again (action Render), after which the *)
(* next event is handled.  The save effect runs after every render whose   *)
(* state changed and writes JSON.stringify({items, storageOrder, slots})   *)
(* to localStorage; the load effect runs once, when the page is mounted.   *)
(***************************************************************************)
EXTENDS Integers, Sequences, FiniteSets, TLC

VARIABLES
    proto,          \* which prototype is running: "part_000" or "App"
    items,          \* useState<Item[]>: sequence of [id, name, stats]
    storageOrder,   \* useState<string[]>
    slots,          \* useState<SlotsState>: SLOT_IDS -> id or NULL
    nextUuid,       \* number of ids crypto.randomUUID() has handed out, plus one
    rendered,       \* the state of the last render: what the handlers' closures
                    \* and the display see
    last,           \* the request handled since the last render, with the
                    \* handler's locals; op = "idle" when none is
    saved           \* the value stored in localStorage under LS_KEY

vars == <<proto, items, storageOrder, slots, nextUuid, rendered, last, saved>>

\* ------------------------------------------------------------------ bounds
\* ids ever allocated in one run (demo items included)
MaxItems == 3

\* length of the text typed into the stats field
MaxStatsLen == 3

\* items created in one run of the creation specification
MaxCreated == 2

\* --------------------------------------------------------------- constants
SLOT_IDS == {"head", "body", "mainHand", "offHand", "legs"}

\* the id of the storage container droppable
STORAGE == "storage"

\* JavaScript null / undefined (falsy, equal to no id)
NULL == "<null>"

PROTOS == {"part_000", "App"}

\* values of a stats object: a number, a string, or undefined
Num(n) == [t |-> "number", n |-> n, s |-> <<>>]
Str(s) == [t |-> "string", n |-> 0, s |-> s]
UNDEFINED == [t |-> "undefined", n |-> 0, s |-> <<>>]

\* the stats object {}
EmptyStats == [k \in {} |-> UNDEFINED]

\* the demo items part_000 installs when nothing is persisted
DemoItems ==
    << [id |-> "sword",  name |-> <<"S", "w", "o", "r", "d">>,
        stats |-> [k \in {<<"a", "t", "t", "a", "c", "k">>} |-> Num(5)]],
       [id |-> "shield", name |-> <<"S", "h", "i", "e", "l", "d">>,
        stats |-> [k \in {<<"d", "e", "f", "e", "n", "s", "e">>} |-> Num(3)]] >>

\* an id generator that hands out the same id again
UuidRepeated(n) == "u1"

\* the n-th value returned by crypto.randomUUID(): never repeats
Uuid(n) == "u" \o ToString(n)

\* texts typed into the name field
NewNames == { <<>>, <<" ">>, <<" ", "b", " ">> }

\* characters typed into the stats field, and the texts made of them
StatsChars == {"a", "1", "=", ",", " "}
StatsTexts == UNION { [1..n -> StatsChars] : n \in 0..MaxStatsLen }

\* ----------------------------------------------------------------- helpers
Range(s) == { s[i] : i \in 1..Len(s) }

\* a membership test that never finds the element
IncludesNever(arr, x) == FALSE

\* Array.prototype.includes
Includes(arr, x) == x \in Range(arr)

\* Array.prototype.indexOf: 0-based index of the first occurrence, -1 if none
IndexOf(arr, x) ==
    IF Includes(arr, x)
    THEN (CHOOSE i \in 1..Len(arr) :
              arr[i] = x /\ \A j \in 1..(i - 1) : arr[j] # x) - 1
    ELSE -1

\* prev.filter((x) => x !== id)
Without(arr, id) == SelectSeq(arr, LAMBDA x : x # id)

\* arr.slice(from, to), 0-based, to exclusive, 0 <= from, to <= length
Slice(arr, from, to) == SubSeq(arr, from + 1, to)

Min(a, b) == IF a < b THEN a ELSE b
Max(a, b) == IF a > b THEN a ELSE b

\* String.prototype.trim on a text of characters
RECURSIVE TrimLeft(_)
TrimLeft(s) == IF s # <<>> /\ Head(s) = " " THEN TrimLeft(Tail(s)) ELSE s

RECURSIVE TrimRight(_)
TrimRight(s) ==
    IF s # <<>> /\ s[Len(s)] = " " THEN TrimRight(SubSeq(s, 1, Len(s) - 1)) ELSE s

\* a trim that leaves the text as typed
TrimNothing(s) == s

Trim(s) == TrimRight(TrimLeft(s))

\* the ids of the catalog
CatalogIds == { items[i].id : i \in 1..Len(items) }

\* every id that ever named an item in this run (deleted ones included)
AllocatedIds ==
    (IF proto = "part_000" THEN { DemoItems[i].id : i \in 1..Len(DemoItems) } ELSE {})
        \cup { Uuid(n) : n \in 1..(nextUuid - 1) }

\* the ids held by slots
EquippedIds == { slots[k] : k \in SLOT_IDS } \ {NULL}

EmptySlots == [k \in SLOT_IDS |-> NULL]

\* the values of the three state hooks
Snapshot == [items |-> items, storageOrder |-> storageOrder, slots |-> slots]

Idle == [op |-> "idle"]

\* the page is open but its effects have not run yet
Boot == [op |-> "boot"]

\* the initial values of the three state hooks
DefaultState == [items |-> <<>>, storageOrder |-> <<>>, slots |-> EmptySlots]

\* ------------------------------------------------------------ stats parsing
\* String.prototype.split(sep) for a one-character separator: the pieces
\* between the separators, one piece (the text itself) when there is none
RECURSIVE Split(_, _)
Split(text, sep) ==
    IF ~Includes(text, sep)
    THEN <<text>>
    ELSE <<Slice(text, 0, IndexOf(text, sep))>>
            \o Split(Slice(text, IndexOf(text, sep) + 1, Len(text)), sep)

Digits == {"0", "1", "2", "3", "4", "5", "6", "7", "8", "9"}

DigitValue(c) ==
    CASE c = "0" -> 0 [] c = "1" -> 1 [] c = "2" -> 2 [] c = "3" -> 3
      [] c = "4" -> 4 [] c = "5" -> 5 [] c = "6" -> 6 [] c = "7" -> 7
      [] c = "8" -> 8 [] c = "9" -> 9

\* Number(v) of a trimmed text without sign, point or exponent: the empty text
\* is 0, a text of decimal digits is its value, anything else is NaN
IsNaNNumber(v) == \E i \in 1..Len(v) : v[i] \notin Digits

RECURSIVE NumberOf(_)
NumberOf(v) ==
    IF v = <<>> THEN 0
    ELSE 10 * NumberOf(SubSeq(v, 1, Len(v) - 1)) + DigitValue(v[Len(v)])

\* const [k, v] = pair.split("=").map((s) => s.trim())
PairKey(pair) == Trim(Split(pair, "=")[1])

\* v is undefined when the pair has no "="; Number(undefined) is NaN
\* isNaN(Number(v)) ? v : Number(v)
PairValue(pair) ==
    LET parts == Split(pair, "=")
    IN  IF Len(parts) < 2 THEN UNDEFINED
        ELSE IF IsNaNNumber(Trim(parts[2])) THEN Str(Trim(parts[2]))
        ELSE Num(NumberOf(Trim(parts[2])))

\* newStats.split(",").forEach(pair => { if (k) stats[k] = ... }): a later
\* pair overwrites the entry of an earlier pair with the same key
ParseStats(newStats) ==
    LET pairs == Split(newStats, ",")
        keys  == { PairKey(pairs[i]) : i \in 1..Len(pairs) } \ {<<>>}
        lastOf(k) == CHOOSE i \in 1..Len(pairs) :
                        /\ PairKey(pairs[i]) = k
                        /\ \A j \in (i + 1)..Len(pairs) : PairKey(pairs[j]) # k
    IN  [k \in keys |-> PairValue(pairs[lastOf(k)])]

\* -------------------------------------------------------------- persistence
FIELDS == {"items", "storageOrder", "slots"}

\* JSON.stringify of an item: a property whose value is undefined is left out
StringifyItem(item) ==
    [item EXCEPT !.stats =
        [k \in { q \in DOMAIN item.stats : item.stats[q] # UNDEFINED }
            |-> item.stats[k]]]

\* JSON.stringify({ items, storageOrder, slots }), as the JSON value written
Stringify(state) ==
    [kind |-> "object", has |-> FIELDS,
     items |-> [i \in 1..Len(state.items) |-> StringifyItem(state.items[i])],
     storageOrder |-> state.storageOrder,
     slots |-> state.slots]

\* localStorage.getItem returns null: nothing was ever saved
NoRaw == [kind |-> "none", has |-> {}, items |-> <<>>, storageOrder |-> <<>>,
          slots |-> <<>>]

\* a stored text that JSON.parse rejects
Unparsable == [kind |-> "unparsable", has |-> {}, items |-> <<>>,
               storageOrder |-> <<>>, slots |-> <<>>]

\* a load that installs the demo items whenever the stored value is not an
\* object
LoadDemoUnlessObject(raw) ==
    IF raw.kind = "object"
    THEN [items |-> IF "items" \in raw.has THEN raw.items ELSE <<>>,
          storageOrder |-> IF "storageOrder" \in raw.has
                           THEN raw.storageOrder ELSE <<>>,
          slots |-> [k \in SLOT_IDS |->
                        IF "slots" \in raw.has /\ k \in DOMAIN raw.slots
                        THEN raw.slots[k] ELSE EmptySlots[k]]]
    ELSE [items |-> DemoItems,
          storageOrder |-> [i \in 1..Len(DemoItems) |-> DemoItems[i].id],
          slots |-> EmptySlots]

\* the state the load effect installs over the initial hook values, for the
\* stored value raw
Load(raw) ==
    IF raw.kind = "object"
    THEN [items |-> IF "items" \in raw.has THEN raw.items ELSE <<>>,
          storageOrder |-> IF "storageOrder" \in raw.has
                           THEN raw.storageOrder ELSE <<>>,
          slots |-> [k \in SLOT_IDS |->
                        IF "slots" \in raw.has /\ k \in DOMAIN raw.slots
                        THEN raw.slots[k] ELSE EmptySlots[k]]]
    ELSE IF raw.kind = "none" /\ proto = "part_000"
    THEN [items |-> DemoItems,
          storageOrder |-> [i \in 1..Len(DemoItems) |-> DemoItems[i].id],
          slots |-> EmptySlots]
    ELSE DefaultState

\* -------------------------------------------------------------------- Init
\* State after mount with nothing persisted: part_000 installs its two demo
\* items into storage, App starts empty.
Init ==
    /\ proto \in PROTOS
    /\ items = IF proto = "part_000" THEN DemoItems ELSE <<>>
    /\ storageOrder = IF proto = "part_000"
                      THEN [i \in 1..Len(DemoItems) |-> DemoItems[i].id]
                      ELSE <<>>
    /\ slots = EmptySlots
    /\ nextUuid = 1
    /\ rendered = [items |-> items, storageOrder |-> storageOrder, slots |-> slots]
    /\ last = Idle
    /\ saved = Stringify(rendered)

\* ------------------------------------------------------------------ render
\* React renders the component with the new hook values; the handlers of the
\* next event close over them.
\* a render that shows and saves the new slots first, and the rest of the
\* pending request by a second render
RenderSlotsFirst ==
    /\ last \notin {Idle, Boot}
    /\ IF rendered.slots # slots
       THEN /\ rendered' = [rendered EXCEPT !.slots = slots]
            /\ saved' = Stringify(rendered')
            /\ last' = last
       ELSE /\ rendered' = Snapshot
            /\ saved' = Stringify(Snapshot)
            /\ last' = Idle
    /\ UNCHANGED <<proto, items, storageOrder, slots, nextUuid>>

Render ==
    /\ last \notin {Idle, Boot}
    /\ rendered' = Snapshot
    /\ saved' = Stringify(Snapshot)
    /\ last' = Idle
    /\ UNCHANGED <<proto, items, storageOrder, slots, nextUuid>>

\* ----------------------------------------------------------------- addItem
\* part_000 has no stats field: its new items get stats {}
AddItem(newName, newStats) ==
    /\ last = Idle
    /\ IF Trim(newName) = <<>>
       THEN /\ UNCHANGED <<items, storageOrder, nextUuid>>
            /\ last' = [op |-> "addItem", newName |-> newName,
                        newStats |-> newStats, id |-> NULL]
       ELSE /\ Cardinality(AllocatedIds) < MaxItems
            /\ items' = Append(items,
                    [id |-> Uuid(nextUuid), name |-> Trim(newName),
                     stats |-> IF proto = "App" THEN ParseStats(newStats)
                               ELSE EmptyStats])
            /\ storageOrder' = Append(storageOrder, Uuid(nextUuid))
            /\ nextUuid' = nextUuid + 1
            /\ last' = [op |-> "addItem", newName |-> newName,
                        newStats |-> newStats, id |-> Uuid(nextUuid)]
    /\ UNCHANGED <<proto, slots, rendered, saved>>

\* -------------------------------------------------- unequip / unequipEverywhere
\* an unequip that clears nothing
UnequipNothing(prev, itemId) == prev

\* for (const k of SLOT_IDS) if (next[k] === itemId) next[k] = null
Unequip(prev, itemId) ==
    [k \in SLOT_IDS |-> IF prev[k] = itemId THEN NULL ELSE prev[k]]

\* -------------------------------------------------------------- deleteItem
DeleteItems(prev, id) == SelectSeq(prev, LAMBDA i : i.id # id)

DeleteItem(id) ==
    /\ last = Idle
    /\ items' = DeleteItems(items, id)
    /\ storageOrder' = Without(storageOrder, id)
    /\ slots' = Unequip(slots, id)
    /\ last' = [op |-> "deleteItem", id |-> id]
    /\ UNCHANGED <<proto, nextUuid, rendered, saved>>

\* --------------------------------------------------------------- arrayMove
\* @dnd-kit/sortable arrayMove(array, from, to):
\*   newArray = array.slice();
\*   newArray.splice(to < 0 ? newArray.length + to : to, 0, newArray.splice(from, 1)[0])
\* from and to are 0-based indices of the array.
\* a list move that inserts before the target element instead of at the
\* target index
ArrayMoveBeforeTarget(array, from, to) ==
    LET moved   == array[from + 1]
        removed == Slice(array, 0, from) \o Slice(array, from + 1, Len(array))
        at      == IF from < to THEN to - 1 ELSE to
    IN  Slice(removed, 0, at) \o <<moved>> \o Slice(removed, at, Len(removed))

\* a list move that exchanges the two elements
ArrayMoveSwap(array, from, to) ==
    [array EXCEPT ![from + 1] = array[to + 1], ![to + 1] = array[from + 1]]

ArrayMove(array, from, to) ==
    LET moved   == array[from + 1]
        removed == Slice(array, 0, from) \o Slice(array, from + 1, Len(array))
        at      == Min(IF to < 0 THEN Len(removed) + to ELSE to, Len(removed))
    IN  Slice(removed, 0, at) \o <<moved>> \o Slice(removed, at, Len(removed))

\* ---------------------------------------------------- moveToStorageAtIndex
MoveToStorageAtIndex(prev, itemId, toIndex) ==
    LET without == Without(prev, itemId)
        clamped == Max(0, Min(toIndex, Len(without)))
    IN  Slice(without, 0, clamped) \o <<itemId>> \o Slice(without, clamped, Len(without))

\* ------------------------------------------------------------ isSlotId
IsSlotId(id) == id \in SLOT_IDS

\* ----------------------------------------------- handleDragEnd, slot branch
\* setSlots((prev) => { replaced = next[overId]; if (replaced && !storageOrder
\*   .includes(replaced)) setStorageOrder(append replaced); clear activeId from
\*   every slot; next[overId] = activeId })
\* an equip that forgets to clear the item from the slot it came from
EquipSlotsKeepOld(prev, activeId, overId) ==
    [prev EXCEPT ![overId] = activeId]

EquipSlots(prev, activeId, overId) ==
    [Unequip(prev, activeId) EXCEPT ![overId] = activeId]

\* the storageOrder updaters of the slot branch, in the order they are applied:
\* the displaced item's append, then the removal of the equipped item
EquipStorage(closureOrder, prevOrder, prevSlots, activeId, overId) ==
    LET replaced == prevSlots[overId]
        inStorageActive == Includes(closureOrder, activeId)
        appended == IF replaced # NULL /\ ~Includes(closureOrder, replaced)
                    THEN Append(prevOrder, replaced)
                    ELSE prevOrder
    IN  IF inStorageActive THEN Without(appended, activeId) ELSE appended

\* ------------------------------------------- handleDragEnd (part_000)
\* The new storageOrder and slots, with the branch taken and the handler's
\* locals, for the drop of activeId onto overId. so is the storageOrder of the
\* handler's closure; prev and sl are the hook values the updaters receive.
DragEndPart000(so, prev, sl, activeId, overId) ==
    LET inStorageActive == Includes(so, activeId)
        inStorageOver   == Includes(so, overId)
        oldIndex == IndexOf(so, activeId)
        newIndex == IndexOf(so, overId)
    IN  IF activeId = NULL \/ overId = NULL
        THEN [storageOrder |-> prev, slots |-> sl, branch |-> "return",
              inStorageActive |-> FALSE, oldIndex |-> -1, newIndex |-> -1,
              replaced |-> NULL]
        ELSE IF inStorageActive /\ inStorageOver
        THEN [storageOrder |-> IF oldIndex # newIndex
                               THEN ArrayMove(prev, oldIndex, newIndex) ELSE prev,
              slots |-> sl, branch |-> "reorder",
              inStorageActive |-> inStorageActive, oldIndex |-> oldIndex,
              newIndex |-> newIndex, replaced |-> NULL]
        ELSE IF overId = STORAGE
        THEN [storageOrder |-> IF ~inStorageActive THEN Append(prev, activeId) ELSE prev,
              slots |-> Unequip(sl, activeId), branch |-> "container",
              inStorageActive |-> inStorageActive, oldIndex |-> -1, newIndex |-> -1,
              replaced |-> NULL]
        ELSE IF inStorageOver
        THEN [storageOrder |-> MoveToStorageAtIndex(prev, activeId, newIndex),
              slots |-> Unequip(sl, activeId), branch |-> "insert",
              inStorageActive |-> inStorageActive, oldIndex |-> -1,
              newIndex |-> newIndex, replaced |-> NULL]
        ELSE IF IsSlotId(overId)
        THEN [storageOrder |-> EquipStorage(so, prev, sl, activeId, overId),
              slots |-> EquipSlots(sl, activeId, overId), branch |-> "slot",
              inStorageActive |-> inStorageActive, oldIndex |-> -1, newIndex |-> -1,
              replaced |-> sl[overId]]
        ELSE [storageOrder |-> prev, slots |-> sl, branch |-> "none",
              inStorageActive |-> inStorageActive, oldIndex |-> -1, newIndex |-> -1,
              replaced |-> NULL]

\* ------------------------------------------------ handleDragEnd (App.tsx)
\* a handler that sends a drop onto an unknown target to the storage container
DragEndAppUnknownToStorage(so, prev, sl, activeId, overId) ==
    LET inStorageActive == Includes(so, activeId)
        inStorageOver   == Includes(so, overId)
        oldIndex == IndexOf(so, activeId)
        newIndex == IndexOf(so, overId)
    IN  IF activeId = NULL \/ overId = NULL
        THEN [storageOrder |-> prev, slots |-> sl, branch |-> "return",
              inStorageActive |-> FALSE, oldIndex |-> -1, newIndex |-> -1,
              replaced |-> NULL]
        ELSE IF inStorageActive /\ inStorageOver
        THEN [storageOrder |-> IF oldIndex # newIndex
                               THEN ArrayMove(prev, oldIndex, newIndex) ELSE prev,
              slots |-> sl, branch |-> "reorder",
              inStorageActive |-> inStorageActive, oldIndex |-> oldIndex,
              newIndex |-> newIndex, replaced |-> NULL]
        ELSE IF IsSlotId(overId)
        THEN [storageOrder |-> EquipStorage(so, prev, sl, activeId, overId),
              slots |-> EquipSlots(sl, activeId, overId), branch |-> "slot",
              inStorageActive |-> inStorageActive, oldIndex |-> -1, newIndex |-> -1,
              replaced |-> sl[overId]]
        ELSE [storageOrder |-> IF ~inStorageActive THEN Append(prev, activeId) ELSE prev,
              slots |-> Unequip(sl, activeId), branch |-> "container",
              inStorageActive |-> inStorageActive, oldIndex |-> -1, newIndex |-> -1,
              replaced |-> NULL]

DragEndApp(so, prev, sl, activeId, overId) ==
    LET inStorageActive == Includes(so, activeId)
        inStorageOver   == Includes(so, overId)
        oldIndex == IndexOf(so, activeId)
        newIndex == IndexOf(so, overId)
    IN  IF activeId = NULL \/ overId = NULL
        THEN [storageOrder |-> prev, slots |-> sl, branch |-> "return",
              inStorageActive |-> FALSE, oldIndex |-> -1, newIndex |-> -1,
              replaced |-> NULL]
        ELSE IF inStorageActive /\ inStorageOver
        THEN [storageOrder |-> IF oldIndex # newIndex
                               THEN ArrayMove(prev, oldIndex, newIndex) ELSE prev,
              slots |-> sl, branch |-> "reorder",
              inStorageActive |-> inStorageActive, oldIndex |-> oldIndex,
              newIndex |-> newIndex, replaced |-> NULL]
        ELSE IF overId = STORAGE
        THEN [storageOrder |-> IF ~inStorageActive THEN Append(prev, activeId) ELSE prev,
              slots |-> Unequip(sl, activeId), branch |-> "container",
              inStorageActive |-> inStorageActive, oldIndex |-> -1, newIndex |-> -1,
              replaced |-> NULL]
        ELSE IF IsSlotId(overId)
        THEN [storageOrder |-> EquipStorage(so, prev, sl, activeId, overId),
              slots |-> EquipSlots(sl, activeId, overId), branch |-> "slot",
              inStorageActive |-> inStorageActive, oldIndex |-> -1, newIndex |-> -1,
              replaced |-> sl[overId]]
        ELSE [storageOrder |-> prev, slots |-> sl, branch |-> "none",
              inStorageActive |-> inStorageActive, oldIndex |-> -1, newIndex |-> -1,
              replaced |-> NULL]

\* the drop of activeId onto overId, handled by the running prototype: the
\* closure values are those of the last render, the updaters run on the hooks
\* a handler that also removes the dragged item from the catalog
HandleDragEndConsuming(activeId, overId) ==
    LET r == IF proto = "part_000"
             THEN DragEndPart000(rendered.storageOrder, storageOrder, slots,
                                 activeId, overId)
             ELSE DragEndApp(rendered.storageOrder, storageOrder, slots,
                             activeId, overId)
    IN  /\ last = Idle
        /\ items' = DeleteItems(items, activeId)
        /\ storageOrder' = r.storageOrder
        /\ slots' = r.slots
        /\ last' = [op |-> "move", activeId |-> activeId, overId |-> overId,
                    branch |-> r.branch, inStorageActive |-> r.inStorageActive,
                    oldIndex |-> r.oldIndex, newIndex |-> r.newIndex,
                    replaced |-> r.replaced]
        /\ UNCHANGED <<proto, nextUuid, rendered, saved>>

HandleDragEnd(activeId, overId) ==
    LET r == IF proto = "part_000"
             THEN DragEndPart000(rendered.storageOrder, storageOrder, slots,
                                 activeId, overId)
             ELSE DragEndApp(rendered.storageOrder, storageOrder, slots,
                             activeId, overId)
    IN  /\ last = Idle
        /\ storageOrder' = r.storageOrder
        /\ slots' = r.slots
        /\ last' = [op |-> "move", activeId |-> activeId, overId |-> overId,
                    branch |-> r.branch, inStorageActive |-> r.inStorageActive,
                    oldIndex |-> r.oldIndex, newIndex |-> r.newIndex,
                    replaced |-> r.replaced]
        /\ UNCHANGED <<proto, items, nextUuid, rendered, saved>>

\* ------------------------------------------------------------ mount, reload
\* The effects of the first render, in the order they are declared: the load
\* effect reads localStorage and enqueues what it read, then the save effect
\* writes the hook values of the first render, which are the initial ones.
Mount ==
    /\ last = Boot
    /\ items' = Load(saved).items
    /\ storageOrder' = Load(saved).storageOrder
    /\ slots' = Load(saved).slots
    /\ saved' = Stringify(Snapshot)
    /\ last' = [op |-> "mount", raw |-> saved]
    /\ UNCHANGED <<proto, nextUuid, rendered>>

\* The page is closed and opened again: the hooks start from their initial
\* values, localStorage is kept.
Unload ==
    /\ last = Idle
    /\ items' = DefaultState.items
    /\ storageOrder' = DefaultState.storageOrder
    /\ slots' = DefaultState.slots
    /\ rendered' = DefaultState
    /\ last' = Boot
    /\ UNCHANGED <<proto, nextUuid, saved>>

\* ------------------------------------------------------------------ inputs
\* drop targets: a slot, the storage container, an item's id (a deleted item's
\* id is a stale id), or none (a drop outside every droppable)
OverIds == SLOT_IDS \cup {STORAGE} \cup AllocatedIds \cup {NULL}

\* gestures: the dragged item's id (possibly stale) and the drop target; an
\* event without active item is represented by one drop onto the container
Gestures == (AllocatedIds \X OverIds) \cup {<<NULL, STORAGE>>}

\* stored values the page may find when it is opened: none, a text that is
\* not JSON, or an object in which each of the three fields is present or
\* missing and the slots object names some of the slots
PersistedItem == [id |-> "p1", name |-> <<"b">>, stats |-> EmptyStats]

SlotDomains == { {}, {"head"}, SLOT_IDS }

Blobs ==
    {NoRaw, Unparsable} \cup
    { [kind |-> "object", has |-> h,
       items |-> IF "items" \in h THEN it ELSE <<>>,
       storageOrder |-> IF "storageOrder" \in h THEN so ELSE <<>>,
       slots |-> IF "slots" \in h THEN sl ELSE <<>>] :
         h \in SUBSET FIELDS,
         it \in { <<>>, <<PersistedItem>> },
         so \in { <<>>, <<"p1">> },
         sl \in UNION { [d -> {NULL, "p1"}] : d \in SlotDomains } }

\* the stats field is left empty here; NextCreate fills it
Next ==
    \/ \E n \in NewNames : AddItem(n, <<>>)
    \/ \E id \in AllocatedIds : DeleteItem(id)
    \/ \E g \in Gestures : HandleDragEnd(g[1], g[2])
    \/ Render

Spec == Init /\ [][Next]_vars

\* the same machine, one prototype at a time
SpecPart000 == (Init /\ proto = "part_000") /\ [][Next]_vars

SpecApp == (Init /\ proto = "App") /\ [][Next]_vars

\* ---- creating items with stats, closing and opening the page
NextCreate ==
    \/ \E n \in NewNames, t \in StatsTexts :
            nextUuid <= MaxCreated /\ AddItem(n, t)
    \/ Render
    \/ Unload
    \/ Mount

SpecCreate == Init /\ [][NextCreate]_vars

\* ---- opening the page on a stored value
InitLoad ==
    /\ proto \in PROTOS
    /\ items = DefaultState.items
    /\ storageOrder = DefaultState.storageOrder
    /\ slots = DefaultState.slots
    /\ nextUuid = 1
    /\ rendered = DefaultState
    /\ last = Boot
    /\ saved \in Blobs

NextLoad ==
    \/ Mount
    \/ Render

SpecLoad == InitLoad /\ [][NextLoad]_vars

\* ------------------------------------------ slot grid (BU/App_0.1.tsx)
\* The first prototype: eight slots and no storage list.  Only the slots
\* hook is used; items and storageOrder stay empty.
GRID_SLOT_IDS ==
    {"slot0", "slot1", "slot2", "slot3", "slot4", "slot5", "slot6", "slot7"}

GridItems == {"sword", "shield", "potion"}

DefaultSlots ==
    [k \in GRID_SLOT_IDS |->
        CASE k = "slot0" -> "sword"
          [] k = "slot1" -> "shield"
          [] k = "slot4" -> "potion"
          [] OTHER -> NULL]

\* the slots of sl holding id
GridSlotsOf(sl, id) == { k \in DOMAIN sl : sl[k] = id }

\* the item ids held by the slots of sl: the draggable items on screen
GridHeld(sl) == { sl[k] : k \in DOMAIN sl } \ {NULL}

\* slot maps in which no item id is in two slots: defaultSlots, and the maps
\* a stored value may hold
GridStates ==
    { sl \in [GRID_SLOT_IDS -> GridItems \cup {NULL}] :
        \A id \in GridItems : Cardinality(GridSlotsOf(sl, id)) <= 1 }

\* JSON.stringify(slots)
GridStringify(sl) ==
    [kind |-> "object", has |-> {"slots"}, items |-> <<>>,
     storageOrder |-> <<>>, slots |-> sl]

\* an updater that leaves the dragged item in the slot it came from
GridDragEndSlotsKeepSource(prev, activeId, overId) ==
    [k \in DOMAIN prev \cup {overId} |->
        IF k = overId THEN activeId ELSE prev[k]]

\* an updater that puts the item of the destination into the slot the
\* dragged item came from
GridDragEndSlotsSwap(prev, activeId, overId) ==
    [k \in DOMAIN prev \cup {overId} |->
        IF k = overId THEN activeId
        ELSE IF prev[k] = activeId /\ overId \in DOMAIN prev
        THEN prev[overId] ELSE prev[k]]

\* the setSlots updater: clear activeId from every slot holding it, then
\* next[overId] = activeId
GridDragEndSlots(prev, activeId, overId) ==
    [k \in DOMAIN prev \cup {overId} |->
        IF k = overId THEN activeId
        ELSE IF prev[k] = activeId THEN NULL ELSE prev[k]]

GridHandleDragEnd(activeId, overId) ==
    /\ last = Idle
    /\ IF overId = NULL
       THEN UNCHANGED slots
       ELSE slots' = GridDragEndSlots(slots, activeId, overId)
    /\ last' = [op |-> "drag", activeId |-> activeId, overId |-> overId]
    /\ UNCHANGED <<proto, items, storageOrder, nextUuid, rendered, saved>>

\* the render after a drag, and its save effect
GridRender ==
    /\ last \notin {Idle, Boot}
    /\ rendered' = Snapshot
    /\ saved' = GridStringify(slots)
    /\ last' = Idle
    /\ UNCHANGED <<proto, items, storageOrder, slots, nextUuid>>

InitGrid ==
    /\ proto = "App_0.1"
    /\ items = <<>>
    /\ storageOrder = <<>>
    /\ slots \in GridStates
    /\ nextUuid = 1
    /\ rendered = [items |-> items, storageOrder |-> storageOrder, slots |-> slots]
    /\ last = Idle
    /\ saved = GridStringify(slots)

\* the dragged item is one shown in a slot; the drop lands on a slot or
\* outside every slot
NextGrid ==
    \/ \E a \in GridHeld(rendered.slots), o \in GRID_SLOT_IDS \cup {NULL} :
            GridHandleDragEnd(a, o)
    \/ GridRender

SpecGrid == InitGrid /\ [][NextGrid]_vars

\* ============================================================== properties
\* While a request is pending (last # Idle), rendered is the state the request
\* was handled in and items, storageOrder, slots are the state it produced.
StoredIds == Range(storageOrder)

PreStored == Range(rendered.storageOrder)

PreEquipped == { rendered.slots[k] : k \in SLOT_IDS } \ {NULL}

PreCatalog == { rendered.items[i].id : i \in 1..Len(rendered.items) }

NoDuplicates(arr) == \A i, j \in 1..Len(arr) : arr[i] = arr[j] => i = j

\* the slots holding id
SlotsOf(sl, id) == { k \in SLOT_IDS : sl[k] = id }

Moved == last.op = "move"

\* x comes before y in arr
Before(arr, x, y) == IndexOf(arr, x) < IndexOf(arr, y)

\* the members of S are in the same relative order in old and new
SameRelativeOrder(old, new, S) ==
    \A x, y \in S : Before(old, x, y) <=> Before(new, x, y)

\* the request left catalog, slots and storage as they were
StateUnchanged ==
    /\ items = rendered.items
    /\ storageOrder = rendered.storageOrder
    /\ slots = rendered.slots

\* ---- C1 -----------------------------------------------------------------
\* C1: every catalog item id is in exactly one of {held by some slot, member
\* of storageOrder}: never both, never neither.
C1_Partition ==
    \A id \in CatalogIds : (id \in EquippedIds) # (id \in StoredIds)

\* ---- C2 -----------------------------------------------------------------
\* C2: storageOrder never contains an id twice and no item id is held by two
\* distinct slots.
C2_NoDuplication ==
    /\ NoDuplicates(storageOrder)
    /\ \A k1, k2 \in SLOT_IDS :
          slots[k1] # NULL /\ slots[k1] = slots[k2] => k1 = k2

\* a move into a slot of an item another slot held; a displaced item went back
\* to storage
C2_Witness ==
    /\ Moved /\ last.branch = "slot"
    /\ \E k \in SLOT_IDS : k # last.overId /\ rendered.slots[k] = last.activeId
    /\ last.replaced \notin {NULL, last.activeId}
    /\ Len(storageOrder) >= 2

\* ---- C3 -----------------------------------------------------------------
\* C3: after a move of X onto slot S, whatever X's location before (stored,
\* in another slot, or in S itself), S holds X, no other slot holds X and X is
\* not a member of storageOrder.
C3_EquipPlacesInSlotOnly ==
    Moved /\ IsSlotId(last.overId) =>
        /\ slots[last.overId] = last.activeId
        /\ SlotsOf(slots, last.activeId) = {last.overId}
        /\ last.activeId \notin StoredIds

\* ---- C4 -----------------------------------------------------------------
\* C4: when a move of X targets a slot S that already holds an item Y, then
\* afterwards Y is in storageOrder, at its tail, S holds X and X is absent
\* from storageOrder.
C4_DisplacedGoesToStorageTail ==
    Moved /\ IsSlotId(last.overId)
          /\ rendered.slots[last.overId] \notin {NULL, last.activeId} =>
        /\ rendered.slots[last.overId] \in StoredIds
        /\ storageOrder[Len(storageOrder)] = rendered.slots[last.overId]
        /\ slots[last.overId] = last.activeId
        /\ last.activeId \notin StoredIds

\* the same without the position: the displaced item is in storageOrder
C4_DisplacedGoesToStorage ==
    Moved /\ IsSlotId(last.overId)
          /\ rendered.slots[last.overId] \notin {NULL, last.activeId} =>
        /\ rendered.slots[last.overId] \in StoredIds
        /\ slots[last.overId] = last.activeId
        /\ last.activeId \notin StoredIds

\* ---- C5 -----------------------------------------------------------------
\* C5: every id held by a slot or appearing in storageOrder is the id of an
\* item of the catalog.
C5_ReferentialIntegrity ==
    EquippedIds \cup StoredIds \subseteq CatalogIds

\* ---- C6 -----------------------------------------------------------------
\* C6: a move whose activeId is not the id of a catalog item changes nothing,
\* whatever the target.
C6_StaleActiveIsNoOp ==
    Moved /\ last.activeId \notin PreCatalog => StateUnchanged
\* ---- C7 -----------------------------------------------------------------
\* a reorder: active item A dropped onto another stored item B
Reordered ==
    /\ Moved
    /\ last.activeId \in PreStored /\ last.overId \in PreStored
    /\ last.activeId # last.overId

MovedForward ==
    IndexOf(rendered.storageOrder, last.activeId)
        < IndexOf(rendered.storageOrder, last.overId)

\* C7 as stated: after a reorder of A onto B, when A was before B, B sits
\* immediately after A; when A was after B, A is at B's previous index; and
\* [a, b, c] with a dropped onto c becomes [b, a, c].
C7_ReorderPositionAsStated ==
    Reordered =>
        /\ MovedForward =>
              IndexOf(storageOrder, last.overId)
                  = IndexOf(storageOrder, last.activeId) + 1
        /\ ~MovedForward =>
              IndexOf(storageOrder, last.activeId)
                  = IndexOf(rendered.storageOrder, last.overId)
        /\ ( /\ Len(rendered.storageOrder) = 3
             /\ rendered.storageOrder[1] = last.activeId
             /\ rendered.storageOrder[3] = last.overId )
           => storageOrder = << rendered.storageOrder[2], last.activeId, last.overId >>

\* C7 as amended: after a reorder of A onto B, A is at the index B had, in
\* both directions; B is immediately before A when A moved forward and
\* immediately after A when A moved backward; [a, b, c] with a dropped onto c
\* becomes [b, c, a].
C7_ReorderPosition ==
    Reordered =>
        /\ IndexOf(storageOrder, last.activeId)
              = IndexOf(rendered.storageOrder, last.overId)
        /\ MovedForward =>
              IndexOf(storageOrder, last.overId)
                  = IndexOf(storageOrder, last.activeId) - 1
        /\ ~MovedForward =>
              IndexOf(storageOrder, last.overId)
                  = IndexOf(storageOrder, last.activeId) + 1
        /\ ( /\ Len(rendered.storageOrder) = 3
             /\ rendered.storageOrder[1] = last.activeId
             /\ rendered.storageOrder[3] = last.overId )
           => storageOrder = << rendered.storageOrder[2], last.overId, last.activeId >>

\* the first of three stored items was dropped onto the last
C7_Witness ==
    /\ Reordered
    /\ Len(rendered.storageOrder) = 3
    /\ rendered.storageOrder[1] = last.activeId
    /\ rendered.storageOrder[3] = last.overId
    /\ storageOrder # rendered.storageOrder

\* ---- C8 -----------------------------------------------------------------
\* C8: a move of A onto B, both members of storageOrder, leaves the set of
\* stored ids, the relative order of all items other than A, the catalog and
\* the slots unchanged; a move of A onto A changes nothing.
C8_ReorderStability ==
    Moved /\ last.activeId \in PreStored /\ last.overId \in PreStored =>
        /\ StoredIds = PreStored
        /\ Len(storageOrder) = Len(rendered.storageOrder)
        /\ SameRelativeOrder(rendered.storageOrder, storageOrder,
                             PreStored \ {last.activeId})
        /\ items = rendered.items
        /\ slots = rendered.slots
        /\ last.activeId = last.overId => StateUnchanged

\* the last of three stored items was dropped onto the first, with an item
\* between them
C8_Witness ==
    /\ Reordered
    /\ Len(rendered.storageOrder) = 3
    /\ rendered.storageOrder[3] = last.activeId
    /\ rendered.storageOrder[1] = last.overId
    /\ storageOrder[1] = last.activeId

\* ---- C9 -----------------------------------------------------------------
Deleted == last.op = "deleteItem"

\* after deleteItem(id), id is in no slot, not in storageOrder, not in the
\* catalog
PurgedEverywhere ==
    /\ last.id \notin EquippedIds
    /\ last.id \notin StoredIds
    /\ last.id \notin CatalogIds

\* every other item keeps its catalog entry, its slot and its relative
\* position in storageOrder
OthersKept ==
    /\ \A i \in 1..Len(rendered.items) :
          rendered.items[i].id # last.id => Includes(items, rendered.items[i])
    /\ Len(items) = Cardinality({ i \in 1..Len(rendered.items) :
                                     rendered.items[i].id # last.id })
    /\ \A k \in SLOT_IDS :
          rendered.slots[k] # last.id => slots[k] = rendered.slots[k]
    /\ StoredIds = PreStored \ {last.id}
    /\ NoDuplicates(storageOrder)
    /\ SameRelativeOrder(rendered.storageOrder, storageOrder, StoredIds)

\* C9: after deleteItem(id), id is in no slot, not in storageOrder and not in
\* the catalog, every other item keeps its slot or its relative position in
\* storageOrder, and if id is not the id of a catalog item the whole state is
\* unchanged.
C9_DeletePurgesOnlyId ==
    Deleted =>
        /\ PurgedEverywhere
        /\ OthersKept
        /\ last.id \notin PreCatalog => StateUnchanged

\* the same with "id does not exist" read as: id is neither in the catalog nor
\* referenced by a slot or by storageOrder
C9_DeletePurgesOnlyIdUnreferenced ==
    Deleted =>
        /\ PurgedEverywhere
        /\ OthersKept
        /\ last.id \notin PreCatalog \cup PreStored \cup PreEquipped => StateUnchanged

\* ---- C10 ----------------------------------------------------------------
\* an equipped item that is not a member of storageOrder was dropped onto a
\* stored item
DroppedOntoStoredItem ==
    /\ Moved
    /\ last.activeId \in PreEquipped
    /\ last.activeId \notin PreStored
    /\ last.overId \in PreStored

\* C10: when activeId is not a member of storageOrder and targetId is a stored
\* item, the move clears activeId from every slot holding it and inserts
\* activeId into storageOrder at the index targetId occupied, immediately
\* before targetId, leaving the relative order of the other stored items
\* unchanged.
C10_InsertBeforeStoredItem ==
    DroppedOntoStoredItem =>
        /\ SlotsOf(slots, last.activeId) = {}
        /\ \A k \in SLOT_IDS :
              rendered.slots[k] # last.activeId => slots[k] = rendered.slots[k]
        /\ StoredIds = PreStored \cup {last.activeId}
        /\ Len(storageOrder) = Len(rendered.storageOrder) + 1
        /\ IndexOf(storageOrder, last.activeId)
              = IndexOf(rendered.storageOrder, last.overId)
        /\ IndexOf(storageOrder, last.overId)
              = IndexOf(storageOrder, last.activeId) + 1
        /\ SameRelativeOrder(rendered.storageOrder, storageOrder, PreStored)
\* ---- C11 ----------------------------------------------------------------
\* an equipped item that is not a member of storageOrder was dropped onto the
\* storage container
UnequippedToContainer ==
    /\ Moved
    /\ last.overId = STORAGE
    /\ last.activeId \in PreEquipped
    /\ last.activeId \notin PreStored

\* C11: when activeId is held by a slot and is not in storageOrder, a drop of
\* activeId onto the storage container clears every slot holding it and
\* appends it at the tail of storageOrder; the existing storage entries, their
\* order and all other slots are unchanged.
C11_UnequipToStorageTail ==
    UnequippedToContainer =>
        /\ SlotsOf(slots, last.activeId) = {}
        /\ \A k \in SLOT_IDS :
              rendered.slots[k] # last.activeId => slots[k] = rendered.slots[k]
        /\ Len(storageOrder) = Len(rendered.storageOrder) + 1
        /\ storageOrder[Len(storageOrder)] = last.activeId
        /\ \A i \in 1..Len(rendered.storageOrder) :
              storageOrder[i] = rendered.storageOrder[i]
        /\ items = rendered.items

\* an equipped item went to the tail of a non-empty storage while another
\* item stayed equipped
C11_Witness ==
    /\ UnequippedToContainer
    /\ Len(rendered.storageOrder) >= 1
    /\ EquippedIds # {}

\* ---- C12 ----------------------------------------------------------------
\* the result of handling the last gesture once more, in the state it produced
Redrop ==
    IF proto = "part_000"
    THEN DragEndPart000(storageOrder, storageOrder, slots, last.activeId, last.overId)
    ELSE DragEndApp(storageOrder, storageOrder, slots, last.activeId, last.overId)

\* C12: a drop of X onto the storage container when X is already a member of
\* storageOrder leaves storageOrder (membership and order) unchanged, and the
\* same drop repeated yields the same state as the drop done once.
C12_IdempotentRedrop ==
    Moved /\ last.overId = STORAGE /\ last.activeId \in PreStored =>
        /\ storageOrder = rendered.storageOrder
        /\ Redrop.storageOrder = storageOrder
        /\ Redrop.slots = slots

\* a stored item, not the only one, was dropped onto the storage container
C12_Witness ==
    /\ Moved /\ last.overId = STORAGE /\ last.activeId \in PreStored
    /\ Len(rendered.storageOrder) >= 2
    /\ rendered.storageOrder[1] = last.activeId

\* ---- C13 ----------------------------------------------------------------
\* a stored item was dropped onto an empty slot
EquippedFromStorage ==
    /\ Moved
    /\ IsSlotId(last.overId)
    /\ last.activeId \in PreStored
    /\ rendered.slots[last.overId] = NULL

\* the effect C13 describes
EquipEffect ==
    /\ slots[last.overId] = last.activeId
    /\ last.activeId \notin StoredIds
    /\ StoredIds = PreStored \ {last.activeId}
    /\ NoDuplicates(storageOrder)
    /\ SameRelativeOrder(rendered.storageOrder, storageOrder, StoredIds)
    /\ \A k \in SLOT_IDS \ {last.overId} : slots[k] = rendered.slots[k]

\* C13: when X is stored and slot S is empty, a move of X onto S sets S to X
\* and removes X from storageOrder, leaving the other stored items in their
\* previous relative order and every other slot unchanged.
C13_EquipFromStorage ==
    EquippedFromStorage => EquipEffect

\* the same for an X that is stored and held by no slot
C13_EquipFromStorageOnly ==
    EquippedFromStorage /\ last.activeId \notin PreEquipped => EquipEffect

\* ---- C14 ----------------------------------------------------------------
\* C14: a move whose target is neither the storage container, nor a slot id,
\* nor the id of a stored item changes nothing.
C14_UnknownTargetIgnored ==
    Moved /\ last.overId \notin {STORAGE} \cup SLOT_IDS \cup PreStored =>
        StateUnchanged

\* an equipped item was dropped onto the id of an item that is not stored,
\* while storage holds another item
C14_Witness ==
    /\ Moved
    /\ last.overId \notin {STORAGE, NULL} \cup SLOT_IDS \cup PreStored
    /\ last.activeId \in PreEquipped
    /\ rendered.storageOrder # <<>>

\* ---- C16 ----------------------------------------------------------------
\* the text is empty after trimming: it holds nothing but spaces
IsBlank(text) == \A i \in 1..Len(text) : text[i] = " "

Added == last.op = "addItem"

\* C16: addItem with a name that is not empty after trimming adds exactly one
\* item, with an id not used before, to the catalog and appends that id at the
\* tail of storageOrder; the existing storage entries keep their order and the
\* slots are unchanged.
C16_CreateAppends ==
    Added /\ ~IsBlank(last.newName) =>
        /\ Len(items) = Len(rendered.items) + 1
        /\ \A i \in 1..Len(rendered.items) : items[i] = rendered.items[i]
        /\ items[Len(items)].id = last.id
        /\ last.id \notin PreCatalog \cup PreStored \cup PreEquipped \cup {NULL}
        /\ last.id \notin { Uuid(n) : n \in 1..(nextUuid - 2) }
        /\ Len(storageOrder) = Len(rendered.storageOrder) + 1
        /\ \A i \in 1..Len(rendered.storageOrder) :
              storageOrder[i] = rendered.storageOrder[i]
        /\ storageOrder[Len(storageOrder)] = last.id
        /\ slots = rendered.slots

\* an item was created while storage held an item and a slot held another
C16_Witness ==
    /\ Added /\ ~IsBlank(last.newName)
    /\ rendered.storageOrder # <<>>
    /\ PreEquipped # {}
    /\ last.id \in StoredIds

\* ---- C17 ----------------------------------------------------------------
\* C17: addItem with a name that is empty after trimming allocates no id and
\* leaves catalog, slots and storageOrder unchanged.
C17_BlankNameRejected ==
    [][ (last'.op = "addItem" /\ IsBlank(last'.newName)) =>
            /\ last'.id = NULL
            /\ UNCHANGED <<items, storageOrder, slots, nextUuid>>
      ]_vars

\* a name of spaces only was rejected in a state that holds items
C17_Witness ==
    /\ Added /\ last.newName = <<" ">>
    /\ last.id = NULL
    /\ items # <<>>
    /\ StateUnchanged
\* ---- C15 ----------------------------------------------------------------
\* the result of the pending move, computed from the snapshot last observed
PendingMove ==
    IF proto = "part_000"
    THEN DragEndPart000(rendered.storageOrder, rendered.storageOrder,
                        rendered.slots, last.activeId, last.overId)
    ELSE DragEndApp(rendered.storageOrder, rendered.storageOrder,
                    rendered.slots, last.activeId, last.overId)

C18_SaveFollowsMutation ==
    last = Idle =>
        /\ saved = Stringify(Snapshot)
        /\ Load(saved) = Snapshot

\* the first half: the value saved is that of the current state
C18_SavedIsCurrent ==
    last = Idle => saved = Stringify(Snapshot)

\* no stats entry of the catalog has the value undefined
StatsDefined ==
    \A i \in 1..Len(items) :
        \A k \in DOMAIN items[i].stats : items[i].stats[k] # UNDEFINED

\* the second half, for a catalog without undefined stats values
C18_RestoresDefinedStats ==
    last = Idle /\ StatsDefined => Load(saved) = Snapshot

\* ---- C19 ----------------------------------------------------------------
Mounted == last.op = "mount"

\* C19: loading an object in which items, storageOrder or slots is missing
\* yields respectively an empty catalog, an empty storageOrder and all five
\* slots null; a stored text that cannot be parsed leaves the default empty
\* state.
C19_LoadDefaults ==
    Mounted =>
        /\ last.raw.kind = "object" =>
              /\ "items" \notin last.raw.has => items = <<>>
              /\ "storageOrder" \notin last.raw.has => storageOrder = <<>>
              /\ "slots" \notin last.raw.has =>
                    \A k \in SLOT_IDS : slots[k] = NULL
        /\ last.raw.kind = "unparsable" =>
              /\ items = <<>>
              /\ storageOrder = <<>>
              /\ \A k \in SLOT_IDS : slots[k] = NULL

\* an object holding items but neither storageOrder nor slots was loaded
C19_Witness ==
    /\ Mounted
    /\ last.raw.kind = "object" /\ last.raw.has = {"items"}
    /\ items # <<>>
    /\ storageOrder = <<>>
    /\ slots = EmptySlots

\* ---- C20 ----------------------------------------------------------------
\* the keys of the pairs of text that have the form key=value, key not empty
KeyValueKeys(text) ==
    LET pairs == Split(text, ",")
    IN  { Trim(Slice(pairs[i], 0, IndexOf(pairs[i], "="))) :
            i \in { j \in 1..Len(pairs) : "=" \in Range(pairs[j]) } } \ {<<>>}

\* the keys of all pairs of text, with or without "=", key not empty
KeyedPairs(text) ==
    LET pairs == Split(text, ",")
    IN  { Trim(IF "=" \in Range(pairs[i])
               THEN Slice(pairs[i], 0, IndexOf(pairs[i], "="))
               ELSE pairs[i]) : i \in 1..Len(pairs) } \ {<<>>}

CreatedItem == items[Len(items)]

\* C20: the item is created whatever the stats text is, and its stats have
\* an entry exactly for the pairs of the form key=value with a non-empty key:
\* a pair with no "=" or with an empty key adds no entry.
C20_StatsOnlyFromKeyValuePairs ==
    Added /\ proto = "App" /\ ~IsBlank(last.newName) =>
        /\ last.id # NULL
        /\ items # <<>> /\ CreatedItem.id = last.id
        /\ DOMAIN CreatedItem.stats = KeyValueKeys(last.newStats)

\* what the code does: creation is never aborted, a pair with an empty key
\* adds no entry, a pair with a key and no "=" adds an entry without value
C20_StatsFromKeyedPairs ==
    Added /\ proto = "App" /\ ~IsBlank(last.newName) =>
        /\ last.id # NULL
        /\ items # <<>> /\ CreatedItem.id = last.id
        /\ DOMAIN CreatedItem.stats = KeyedPairs(last.newStats)
        /\ \A k \in DOMAIN CreatedItem.stats :
              k \notin KeyValueKeys(last.newStats) =>
                  CreatedItem.stats[k] = UNDEFINED
\* ---- C21 ----------------------------------------------------------------
\* an item held by a slot was dropped onto another slot, which was empty
SlotToSlot ==
    /\ Moved
    /\ IsSlotId(last.overId)
    /\ last.activeId \in PreEquipped
    /\ rendered.slots[last.overId] = NULL

\* the effect C21 describes
SlotToSlotEffect ==
    /\ slots[last.overId] = last.activeId
    /\ \A k \in SLOT_IDS \ {last.overId} :
          slots[k] = IF rendered.slots[k] = last.activeId
                     THEN NULL ELSE rendered.slots[k]
    /\ storageOrder = rendered.storageOrder

\* C21: when X is equipped in slot S1 and another slot S2 is empty, a move of
\* X onto S2 leaves S1 empty and S2 holding X, and leaves storageOrder and
\* every other slot unchanged.
C21_SlotToSlot ==
    SlotToSlot => SlotToSlotEffect

\* the same for an X that is held by a slot and not stored
C21_SlotToSlotNotStored ==
    SlotToSlot /\ last.activeId \notin PreStored => SlotToSlotEffect

\* ---- C22 ----------------------------------------------------------------
\* C22: a move leaves the catalog as it was, the items and the payload of
\* each; the catalog differs from the one last rendered only after addItem or
\* deleteItem.
C22_MoveKeepsCatalog ==
    /\ Moved => items = rendered.items
    /\ items # rendered.items => last.op \in {"addItem", "deleteItem"}

\* a move changed the slots and the storage of a catalog of two items or more
C22_Witness ==
    /\ Moved
    /\ Len(rendered.items) >= 2
    /\ slots # rendered.slots
    /\ storageOrder # rendered.storageOrder
\* ---- C23 ----------------------------------------------------------------
\* a drag of the slot grid ended on a slot
GridDragged == last.op = "drag" /\ last.overId # NULL

\* C23: in the slot grid, starting from a slot map where no item id is in
\* two slots, each item id occupies at most one slot after any drags, the
\* dragged item is in the destination slot, and a drop onto the slot the
\* item already occupies leaves the slot map unchanged.
C23_GridOneSlotPerItem ==
    /\ \A id \in GridItems : Cardinality(GridSlotsOf(slots, id)) <= 1
    /\ GridDragged => slots[last.overId] = last.activeId
    /\ GridDragged /\ rendered.slots[last.overId] = last.activeId =>
          slots = rendered.slots

\* an item was moved from its slot onto an empty one while two other items
\* were held
C23_Witness ==
    /\ GridDragged
    /\ rendered.slots[last.overId] = NULL
    /\ GridSlotsOf(slots, last.activeId) = {last.overId}
    /\ Cardinality(GridHeld(slots)) = 3

\* ---- C24 ----------------------------------------------------------------
\* C24: in the slot grid a drag adds no item; the number of item ids held by
\* slots is unchanged when the destination is empty or is the item's own
\* slot, and is one less when the destination holds another item, which is
\* then in no slot.
C24_GridDragCount ==
    last.op = "drag" =>
        /\ GridHeld(slots) \subseteq GridHeld(rendered.slots)
        /\ GridDragged /\ rendered.slots[last.overId] \in {NULL, last.activeId} =>
              Cardinality(GridHeld(slots)) = Cardinality(GridHeld(rendered.slots))
        /\ GridDragged /\ rendered.slots[last.overId] \notin {NULL, last.activeId} =>
              /\ Cardinality(GridHeld(slots))
                    = Cardinality(GridHeld(rendered.slots)) - 1
              /\ GridSlotsOf(slots, rendered.slots[last.overId]) = {}

\* an item was dropped onto a slot holding another item, which is gone
C24_Witness ==
    /\ GridDragged
    /\ rendered.slots[last.overId] \notin {NULL, last.activeId}
    /\ rendered.slots[last.overId] \notin GridHeld(slots)
    /\ Cardinality(GridHeld(slots)) = 2
====
